---- MODULE Spec2Model ----
(***************************************************************************)
(* A model of the QANet layers (src/QANetLayers.py) and of the evaluation  *)
(* and ensembling driver (src/test.py).                                    *)
(*                                                                         *)
(* Real numbers are kept exact.  A log-probability is counted in units of  *)
(* ln 2 and kept as a fraction [num, den]; its exponential is the          *)
(* algebraic number (1 / 2^(-num))^(1/den), kept as [num, den, root].      *)
(***************************************************************************)
EXTENDS Integers, Sequences, FiniteSets, TLC

\* ------------------------------------------------------------------ bounds
MaxEnsemble == 2     \* longest args.ensemble_list
MaxExamples == 3     \* most examples in the record file
CtxLen == 3          \* context positions of every example (driver)
MaxT == 3            \* longest sequence handed to a layer
MaxEmbd == 8         \* largest n_embd of an attention layer
MaxHeads == 3        \* largest n_head chosen by a caller other than Block
FracBits == 8        \* fractional bits of the softmax's exponential
MaxTable == 4        \* longest positional-encoding table built on its own
MaxConvs == 2        \* largest num_convs of a Block

VARIABLES
    pc,            \* position of main
    args,          \* the parsed command line
    data_loader,   \* the batches of example ids, once built
    dataset_built, \* SQuAD(...) and DataLoader(...) were constructed
    batch_idx,     \* next batch of data_loader (1-based)
    model_idx,     \* next entry of args.ensemble_list within the batch
    model_ckpt,    \* checkpoint loaded into `model` (0: none)
    loads,         \* number of util.load_model calls so far
    forwards,      \* number of forward passes so far
    avg_log_p1,    \* accumulators of the ensembling branch
    avg_log_p2,
    outs,          \* the (log_p1, log_p2) each model returned for this batch
    p1,            \* what was handed to util.discretize last
    p2,
    pred_dict,
    sub_dict,
    predicted_by,  \* uuid -> checkpoints of the models that predicted it
    history,       \* the (uuid, answer) pairs stored into sub_dict, in order
    file_opened,
    csv,           \* rows written to the submission file
    pending,       \* keys of sorted(sub_dict) still to be written
    \* CausalSelfAttention
    a_pc,          \* position of __init__ and forward
    a_cfg,         \* the arguments of __init__
    a_self,        \* the constructed instance
    a_in,          \* the arguments of forward
    a_scores,      \* q @ k^T / sqrt(hs), before the mask is applied
    a_v,           \* the values, one number per batch row, head and position
    a_att,         \* the attention weights after the softmax
    a_y,           \* att @ v
    \* QANetOutput
    o_pc,          \* position of forward
    o_in,          \* M1, M2, M3 and the mask
    o_logits,      \* self.w1(x1) and self.w2(x2), of shape [B, T, 1]
    o_p1,          \* the returned log-probabilities of the start
    o_p2,          \* the returned log-probabilities of the end
    \* position_encoding
    pe_pc,         \* position of forward
    pe_table,      \* the buffer self.pos_encodings, one entry per position
    pe_x,          \* the argument of forward
    pe_out,        \* what forward returned
    \* Block
    b_pc,          \* position of forward
    b_args,        \* num_convs, and the caller's input and mask as handed in
    heap,          \* the tensors: heap[1] is the caller's x, heap[2] the mask
    b_x,           \* the tensor the local x names
    b_residual,    \* the tensor the local residual names (0: unbound)
    b_i,           \* iterations of the convolution loop done
    b_outs         \* the tensor each call returned, and its value then

drvVars == <<pc, args, data_loader, dataset_built, batch_idx, model_idx,
             model_ckpt, loads, forwards, avg_log_p1, avg_log_p2, outs,
             p1, p2, pred_dict, sub_dict, predicted_by, history,
             file_opened, csv, pending>>

attnVars == <<a_pc, a_cfg, a_self, a_in, a_scores, a_v, a_att, a_y>>

outVars == <<o_pc, o_in, o_logits, o_p1, o_p2>>

posVars == <<pe_pc, pe_table, pe_x, pe_out>>

blkVars == <<b_pc, b_args, heap, b_x, b_residual, b_i, b_outs>>

vars == <<drvVars, attnVars, outVars, posVars, blkVars>>

\* What main leaves alone.
DrvFrame == UNCHANGED <<attnVars, outVars, posVars, blkVars>>

\* What CausalSelfAttention leaves alone.
AttnFrame == UNCHANGED <<drvVars, outVars, posVars, blkVars>>

\* What QANetOutput leaves alone.
OutFrame == UNCHANGED <<drvVars, attnVars, posVars, blkVars>>

\* What position_encoding leaves alone.
PosFrame == UNCHANGED <<drvVars, attnVars, outVars, blkVars>>

\* What Block leaves alone; its position encoder's buffer is pe_table.
BlkFrame == UNCHANGED <<drvVars, attnVars, outVars, pe_pc, pe_x, pe_out>>

\* ------------------------------------------------------------- arithmetic
RECURSIVE Pow(_, _)
Pow(b, e) == IF e = 0 THEN 1 ELSE b * Pow(b, e - 1)

Min(a, b) == IF a <= b THEN a ELSE b

\* ------------------------------------------------------------ the inputs
NumIds == MaxExamples - 1      \* distinct example ids
BatchSizes == {1, 2}           \* args.batch_size
ModelTypes == {"baseline", "bidaf_char", "QANet", "transformer"}
Splits == {"dev", "test"}

\* args.ensemble_list: checkpoint paths 1..n
EnsembleList(n) == [i \in 1..n |-> i]

\* The ids of the record file: 2, 1, 2, ... (an id may repeat).
IdAt(i) == (i % NumIds) + 1
RecordIds(n) == [i \in 1..n |-> IdAt(i)]

\* gold_dict[str(id)]['uuid']: uuids sort in the reverse order of the ids.
UuidOf(id) == NumIds + 1 - id

\* data.DataLoader(dataset, batch_size, shuffle=False): consecutive chunks.
RECURSIVE Batches(_, _)
Batches(ids, bs) ==
    IF ids = <<>> THEN <<>>
    ELSE LET k == Min(bs, Len(ids))
         IN  <<SubSeq(ids, 1, k)>> \o Batches(SubSeq(ids, k + 1, Len(ids)), bs)

\* A model's log-softmax output for one example: the probabilities
\* 1/2, 1/4, ..., 1/2^(CtxLen-1), 1/2^(CtxLen-1) (they sum to 1), rotated.
BaseLog(t) == IF t < CtxLen THEN -t ELSE -(CtxLen - 1)
Rotated(h) == [t \in 1..CtxLen |-> BaseLog(((t + h - 2) % CtxLen) + 1)]
\* The output for a batch of B examples: example e peaks h + e - 1 positions on.
BatchOutput(B, h) == [e \in 1..B |-> Rotated(h + e - 1)]
\* What a forward pass may return: the start head peaks anywhere, the end head
\* at the same position or at the next one.
LogProbOutputs(B) ==
    {[log_p1 |-> BatchOutput(B, h), log_p2 |-> BatchOutput(B, h + d)] :
        h \in 1..CtxLen, d \in 0..1}

\* ------------------------------------------------- the ensembling numbers
\* torch.zeros(...)
ZeroLog == [num |-> 0, den |-> 1]

\* avg_log_p = avg_log_p + log_p
AddLog(a, x) == [num |-> a.num + x * a.den, den |-> a.den]

\* avg_log_p /= len(args.ensemble_list)
DivLog(a, n) == [num |-> a.num, den |-> a.den * n]

\* avg_log_p.exp(): 2^(num/den) = (1 / 2^(-num))^(1/den)
ExpLog(a) == [num |-> 1, den |-> Pow(2, -a.num), root |-> a.den]

\* Elementwise over a [B, CtxLen] tensor.
Map2(f(_), x) == [e \in DOMAIN x |-> [t \in DOMAIN x[e] |-> f(x[e][t])]]

\* lines 97-100: torch.zeros(cw_idxs.size())
Zeros(B) == [e \in 1..B |-> [t \in 1..CtxLen |-> ZeroLog]]

\* lines 136-137: avg_log_p = avg_log_p + log_p
Accumulate(acc, out) ==
    [e \in DOMAIN acc |-> [t \in DOMAIN acc[e] |-> AddLog(acc[e][t], out[e][t])]]

\* lines 142-143: avg_log_p /= len(args.ensemble_list)
AverageKeepSum(acc, n) == acc
Average(acc, n) == LET D(a) == DivLog(a, n) IN Map2(D, acc)

\* line 145: avg_log_p.exp()
Exponentiate(acc) == Map2(ExpLog, acc)

\* util.discretize(p1, p2, max_len, no_answer): the span (s, e), s <= e, of the
\* largest joint probability p1[s] * p2[e]; the first such span on a tie.
\* Both rows carry the same root, so the largest product is the smallest
\* product of the denominators.
Spans == {se \in (1..CtxLen) \X (1..CtxLen) : se[1] <= se[2]}
Joint(r1, r2, se) == r1[se[1]].den * r2[se[2]].den
Before(a, b) == a[1] < b[1] \/ (a[1] = b[1] /\ a[2] <= b[2])
Discretize(r1, r2) ==
    CHOOSE se \in Spans :
        \A o \in Spans : \/ Joint(r1, r2, se) < Joint(r1, r2, o)
                         \/ (Joint(r1, r2, se) = Joint(r1, r2, o) /\ Before(se, o))

\* dict.update(new): the new value of a key replaces the old one.
DictUpdate(d, new) == new @@ d

\* util.convert_tokens(gold_dict, ids.tolist(), starts, ends, no_answer):
\* idx2pred by id, uuid2pred by uuid; a later example of the batch replaces an
\* earlier one of the same id.
RECURSIVE Convert(_, _, _, _)
Convert(key(_), ids, spans, i) ==
    IF i = 0 THEN <<>>
    ELSE (key(ids[i]) :> spans[i]) @@ Convert(key, ids, spans, i - 1)
Idx2Pred(ids, spans) == LET K(id) == id IN Convert(K, ids, spans, Len(ids))
Uuid2Pred(ids, spans) == Convert(UuidOf, ids, spans, Len(ids))

\* sorted(sub_dict): the keys in ascending order.
RECURSIVE SortedDescending(_)
SortedDescending(S) ==
    IF S = {} THEN <<>>
    ELSE LET m == CHOOSE x \in S : \A y \in S : y <= x
         IN  <<m>> \o SortedDescending(S \ {m})
RECURSIVE Sorted(_)
Sorted(S) ==
    IF S = {} THEN <<>>
    ELSE LET m == CHOOSE x \in S : \A y \in S : x <= y
         IN  <<m>> \o Sorted(S \ {m})

\* lines 46-68: the model types main builds a model for; any other raises.
AnyModelType(t) == TRUE
ValidModelType(t) == t \in {"baseline", "bidaf_char", "QANet"}

\* util.eval_dicts(gold_dict, pred_dict, no_answer): EM and F1 are averaged
\* over the predictions, so an empty pred_dict divides by zero.
EvalDictsRaises(pd) == DOMAIN pd = {}

\* lines 226-270: `for model_path in args.ensemble_list` of the branch taken
\* when the list is empty.  An entry would load a checkpoint and then stop at
\* line 254, tuple(p1, p2) (a TypeError), or at line 256 with p1 unbound.
SingleBranchLoopRaises(paths) == Len(paths) > 0

\* ---------------------------------------------------------------- main
Header == <<"Id", "Predicted">>

DrvInit ==
    /\ pc = "start"
    /\ args \in [model_type : ModelTypes,
                 ensemble_list : {EnsembleList(n) : n \in 0..MaxEnsemble},
                 split : Splits,
                 batch_size : BatchSizes,
                 record_file : {RecordIds(n) : n \in 0..MaxExamples}]
    /\ data_loader = <<>>
    /\ dataset_built = FALSE
    /\ batch_idx = 1
    /\ model_idx = 1
    /\ model_ckpt = 0
    /\ loads = 0
    /\ forwards = 0
    /\ avg_log_p1 = <<>>
    /\ avg_log_p2 = <<>>
    /\ outs = <<>>
    /\ p1 = <<>>
    /\ p2 = <<>>
    /\ pred_dict = <<>>
    /\ sub_dict = <<>>
    /\ predicted_by = <<>>
    /\ history = <<>>
    /\ file_opened = FALSE
    /\ csv = <<>>
    /\ pending = <<>>

DrvIdle ==
    /\ pc = "idle"
    /\ args = <<>>
    /\ data_loader = <<>>
    /\ dataset_built = FALSE
    /\ batch_idx = 1
    /\ model_idx = 1
    /\ model_ckpt = 0
    /\ loads = 0
    /\ forwards = 0
    /\ avg_log_p1 = <<>>
    /\ avg_log_p2 = <<>>
    /\ outs = <<>>
    /\ p1 = <<>>
    /\ p2 = <<>>
    /\ pred_dict = <<>>
    /\ sub_dict = <<>>
    /\ predicted_by = <<>>
    /\ history = <<>>
    /\ file_opened = FALSE
    /\ csv = <<>>
    /\ pending = <<>>

\* lines 33-68: logging, embeddings, and the model for args.model_type.
BuildModel ==
    /\ pc = "start"
    /\ pc' = IF ValidModelType(args.model_type) THEN "built" ELSE "error"
    /\ UNCHANGED <<args, data_loader, dataset_built, batch_idx, model_idx,
                   model_ckpt, loads, forwards, avg_log_p1, avg_log_p2, outs,
                   p1, p2, pred_dict, sub_dict, predicted_by, history,
                   file_opened, csv, pending>>
    /\ DrvFrame

\* lines 69-89 and 201-225: the branch on len(args.ensemble_list), then the
\* dataset, the data loader, the meters and the gold file.  The branch of the
\* empty list wraps the model and logs args.load_path; it loads nothing.
BuildDataset ==
    /\ pc = "built"
    /\ dataset_built' = TRUE
    /\ data_loader' = Batches(args.record_file, args.batch_size)
    /\ pc' = IF Len(args.ensemble_list) # 0 THEN "eval" ELSE "single"
    /\ UNCHANGED <<args, batch_idx, model_idx, model_ckpt, loads, forwards,
                   avg_log_p1, avg_log_p2, outs, p1, p2, pred_dict, sub_dict,
                   predicted_by, history, file_opened, csv, pending>>
    /\ DrvFrame

\* lines 92-100: the next batch, and the zeroed accumulators.
BatchBegin ==
    /\ pc = "eval"
    /\ batch_idx <= Len(data_loader)
    /\ avg_log_p1' = Zeros(Len(data_loader[batch_idx]))
    /\ avg_log_p2' = Zeros(Len(data_loader[batch_idx]))
    /\ outs' = <<>>
    /\ model_idx' = 1
    /\ pc' = "models"
    /\ UNCHANGED <<args, data_loader, dataset_built, batch_idx, model_ckpt,
                   loads, forwards, p1, p2, pred_dict, sub_dict, predicted_by,
                   history, file_opened, csv, pending>>
    /\ DrvFrame

\* lines 102-137: one entry of args.ensemble_list: a fresh model, its
\* checkpoint, a forward pass on the batch, and the accumulation.
ModelForward ==
    /\ pc = "models"
    /\ model_idx <= Len(args.ensemble_list)
    /\ IF args.model_type \in {"baseline", "bidaf_char", "QANet"}
       THEN \E out \in LogProbOutputs(Len(data_loader[batch_idx])) :
              /\ model_ckpt' = args.ensemble_list[model_idx]
              /\ loads' = loads + 1
              /\ forwards' = forwards + 1
              /\ avg_log_p1' = Accumulate(avg_log_p1, out.log_p1)
              /\ avg_log_p2' = Accumulate(avg_log_p2, out.log_p2)
              /\ outs' = Append(outs, [ckpt |-> args.ensemble_list[model_idx],
                                       log_p1 |-> out.log_p1,
                                       log_p2 |-> out.log_p2])
              /\ model_idx' = model_idx + 1
              /\ pc' = "models"
       ELSE /\ pc' = "error"
            /\ UNCHANGED <<model_ckpt, loads, forwards, avg_log_p1, avg_log_p2,
                           outs, model_idx>>
    /\ UNCHANGED <<args, data_loader, dataset_built, batch_idx, p1, p2,
                   pred_dict, sub_dict, predicted_by, history, file_opened,
                   csv, pending>>
    /\ DrvFrame

\* lines 142-167: the average, its exponential, the spans and the answers.
BatchFinish ==
    /\ pc = "models"
    /\ model_idx > Len(args.ensemble_list)
    /\ LET ids == data_loader[batch_idx]
           n == Len(args.ensemble_list)
           q1 == Exponentiate(Average(avg_log_p1, n))
           q2 == Exponentiate(Average(avg_log_p2, n))
           spans == [e \in 1..Len(ids) |-> Discretize(q1[e], q2[e])]
           uuid2pred == Uuid2Pred(ids, spans)
       IN  /\ avg_log_p1' = Average(avg_log_p1, n)
           /\ avg_log_p2' = Average(avg_log_p2, n)
           /\ p1' = q1
           /\ p2' = q2
           /\ pred_dict' = DictUpdate(pred_dict, Idx2Pred(ids, spans))
           /\ sub_dict' = DictUpdate(sub_dict, uuid2pred)
           /\ predicted_by' =
                  [u \in DOMAIN uuid2pred |-> {outs[m].ckpt : m \in DOMAIN outs}]
                  @@ predicted_by
           /\ history' = history \o [e \in 1..Len(ids) |-> <<UuidOf(ids[e]), spans[e]>>]
    /\ batch_idx' = batch_idx + 1
    /\ pc' = "eval"
    /\ UNCHANGED <<args, data_loader, dataset_built, model_idx, model_ckpt,
                   loads, forwards, outs, file_opened, csv, pending>>
    /\ DrvFrame

\* lines 226-270: the loop of the branch taken when args.ensemble_list is empty.
SingleLoop ==
    /\ pc = "single"
    /\ pc' = IF SingleBranchLoopRaises(args.ensemble_list) THEN "error" ELSE "results"
    /\ UNCHANGED <<args, data_loader, dataset_built, batch_idx, model_idx,
                   model_ckpt, loads, forwards, avg_log_p1, avg_log_p2, outs,
                   p1, p2, pred_dict, sub_dict, predicted_by, history,
                   file_opened, csv, pending>>
    /\ DrvFrame

\* The data loader is exhausted.
EvalDone ==
    /\ pc = "eval"
    /\ batch_idx > Len(data_loader)
    /\ pc' = "results"
    /\ UNCHANGED <<args, data_loader, dataset_built, batch_idx, model_idx,
                   model_ckpt, loads, forwards, avg_log_p1, avg_log_p2, outs,
                   p1, p2, pred_dict, sub_dict, predicted_by, history,
                   file_opened, csv, pending>>
    /\ DrvFrame

\* lines 169-190 and 272-293: the metrics, unless the split is 'test'.
LogResults ==
    /\ pc = "results"
    /\ pc' = IF args.split # "test" /\ EvalDictsRaises(pred_dict)
             THEN "error" ELSE "write"
    /\ UNCHANGED <<args, data_loader, dataset_built, batch_idx, model_idx,
                   model_ckpt, loads, forwards, avg_log_p1, avg_log_p2, outs,
                   p1, p2, pred_dict, sub_dict, predicted_by, history,
                   file_opened, csv, pending>>
    /\ DrvFrame

\* lines 193-197 and 296-300: the file is opened and the header written.
OpenSubmission ==
    /\ pc = "write"
    /\ file_opened' = TRUE
    /\ csv' = Append(csv, Header)
    /\ pending' = Sorted(DOMAIN sub_dict)
    /\ pc' = "rows"
    /\ UNCHANGED <<args, data_loader, dataset_built, batch_idx, model_idx,
                   model_ckpt, loads, forwards, avg_log_p1, avg_log_p2, outs,
                   p1, p2, pred_dict, sub_dict, predicted_by, history>>
    /\ DrvFrame

\* lines 198-199 and 301-302: one row of `for uuid in sorted(sub_dict)`.
WriteRow ==
    /\ pc = "rows"
    /\ pending # <<>>
    /\ csv' = Append(csv, <<Head(pending), sub_dict[Head(pending)]>>)
    /\ pending' = Tail(pending)
    /\ UNCHANGED <<pc, args, data_loader, dataset_built, batch_idx, model_idx,
                   model_ckpt, loads, forwards, avg_log_p1, avg_log_p2, outs,
                   p1, p2, pred_dict, sub_dict, predicted_by, history,
                   file_opened>>
    /\ DrvFrame

\* The loop over the keys ends and the file is closed: main returns.
CloseSubmission ==
    /\ pc = "rows"
    /\ pending = <<>>
    /\ pc' = "done"
    /\ UNCHANGED <<args, data_loader, dataset_built, batch_idx, model_idx,
                   model_ckpt, loads, forwards, avg_log_p1, avg_log_p2, outs,
                   p1, p2, pred_dict, sub_dict, predicted_by, history,
                   file_opened, csv, pending>>
    /\ DrvFrame

DrvNext ==
    \/ BuildModel
    \/ BuildDataset
    \/ BatchBegin
    \/ ModelForward
    \/ BatchFinish
    \/ SingleLoop
    \/ EvalDone
    \/ LogResults
    \/ OpenSubmission
    \/ WriteRow
    \/ CloseSubmission

\* ------------------------------------------------------------ the claims
\* The models' outputs of the batch whose distributions were handed to
\* util.discretize last are still in `outs`.
Handed == p1 # <<>> /\ pc # "models"

RECURSIVE SumLog1(_, _, _, _)
SumLog1(os, m, e, t) ==
    IF m = 0 THEN 0 ELSE os[m].log_p1[e][t] + SumLog1(os, m - 1, e, t)
RECURSIVE SumLog2(_, _, _, _)
SumLog2(os, m, e, t) ==
    IF m = 0 THEN 0 ELSE os[m].log_p2[e][t] + SumLog2(os, m - 1, e, t)

\* v = exp(s / n) for a sum s of n log-probabilities: v^n = 2^s
IsExpOfMean(v, s, n) == v.root = n /\ v.num * Pow(2, -s) = v.den

\* sum over the models of 2^(CtxLen + log_p): the numerator of the mean of
\* the exponentials over the denominator n * 2^CtxLen
RECURSIVE SumExp1(_, _, _, _)
SumExp1(os, m, e, t) ==
    IF m = 0 THEN 0
    ELSE Pow(2, CtxLen + os[m].log_p1[e][t]) + SumExp1(os, m - 1, e, t)
RECURSIVE SumExp2(_, _, _, _)
SumExp2(os, m, e, t) ==
    IF m = 0 THEN 0
    ELSE Pow(2, CtxLen + os[m].log_p2[e][t]) + SumExp2(os, m - 1, e, t)

\* v = a / b, that is (num/den)^(1/root) = a/b: num * b^root = den * a^root
IsFraction(v, a, b) == v.num * Pow(b, v.root) = v.den * Pow(a, v.root)

DataRows == {i \in DOMAIN csv : i >= 2}
RowIds == {csv[i][1] : i \in DataRows}
DatasetUuids == {UuidOf(args.record_file[i]) : i \in DOMAIN args.record_file}

\* C2: a run of main that reaches the end of the submission-writing step has
\* written exactly one data row for each example id of the dataset, with or
\* without an ensemble list, each row's answer predicted by a model into which
\* a checkpoint was loaded.
C2_OneRowPerExample ==
    pc = "done" =>
        /\ RowIds = DatasetUuids
        /\ Cardinality(DataRows) = Cardinality(DatasetUuids)
        /\ \A i \in DataRows :
              /\ csv[i][1] \in DOMAIN predicted_by
              /\ predicted_by[csv[i][1]] # {}

\* The answer stored last under uuid u.
LastStored(u) ==
    LET last == CHOOSE i \in DOMAIN history :
                    /\ history[i][1] = u
                    /\ \A j \in DOMAIN history : history[j][1] = u => j <= i
    IN  history[last][2]

\* C3: the submission file starts with the row ['Id', 'Predicted'], written
\* before any other row; its data rows are in strictly ascending uuid order,
\* each carrying the answer stored last under its uuid, and once the file is
\* written there is exactly one row for each key of sub_dict.
C3_SubmissionSorted ==
    /\ csv # <<>> => csv[1] = Header
    /\ \A i \in DataRows :
          /\ i + 1 \in DataRows => csv[i][1] < csv[i + 1][1]
          /\ csv[i][1] \in DOMAIN sub_dict
          /\ csv[i][2] = LastStored(csv[i][1])
    /\ pc = "done" =>
          /\ RowIds = DOMAIN sub_dict
          /\ Cardinality(DataRows) = Cardinality(DOMAIN sub_dict)

\* A file of two rows or more was written, one of a uuid whose answer was
\* replaced by a later batch.
C3_Witness ==
    /\ pc = "done"
    /\ Cardinality(DataRows) >= 2
    /\ \E i, j \in DOMAIN history :
          i < j /\ history[i][1] = history[j][1] /\ history[i][2] # history[j][2]

\* C4: with a model type other than "baseline", "bidaf_char" and "QANet",
\* main ends in an error with no dataset or data loader built, no checkpoint
\* loaded, no forward pass run and the submission file not opened.
C4_InvalidTypeFailsFirst ==
    args.model_type \notin {"baseline", "bidaf_char", "QANet"} =>
        /\ pc \in {"start", "error"}
        /\ ~dataset_built
        /\ data_loader = <<>>
        /\ loads = 0
        /\ forwards = 0
        /\ model_ckpt = 0
        /\ ~file_opened
        /\ csv = <<>>

\* main has stopped on an invalid model type, an ensemble list given.
C4_Witness ==
    /\ args.model_type \notin {"baseline", "bidaf_char", "QANet"}
    /\ Len(args.ensemble_list) # 0
    /\ pc = "error"

\* ------------------------------------------------- CausalSelfAttention
\* The products q @ k^T / sqrt(hs) are kept as integer scores, counted in tens,
\* so that the fill value -1e10 of line 64 is -10^9.  One number per batch
\* row, head and position stands for the hs components of a value vector.
MaskFill == -1000000000
BlockHeads == 8

AttnBatchSizes == {1, 2}
HeadCounts == (1..MaxHeads) \cup {BlockHeads}
AttnConfigs == [n_embd : 1..MaxEmbd, n_head : HeadCounts]
Seeds == 0..3
AttnInputs ==
    UNION {[B : {B}, T : {T}, mask : [1..B -> [1..T -> {0, 1}]], seed : Seeds] :
              B \in AttnBatchSizes, T \in 1..MaxT}

\* The scores the learned projections produce: -1, 0 or 1 for the seeds 0..2,
\* and scores below the fill value for the seed 3.
ScoreAt(seed, b, h, i, j) ==
    IF seed = 3 THEN 2 * MaskFill + ((b + h + i + j) % 2)
    ELSE ((seed + b + h + 2 * i + 3 * j) % 3) - 1
ValueAt(seed, b, h, j) == 1 + ((seed + b + h + j) % 2)

RECURSIVE Product(_)
Product(shape) == IF shape = <<>> THEN 1 ELSE Head(shape) * Product(Tail(shape))

RECURSIVE SumTo(_, _)
SumTo(f, n) == IF n = 0 THEN 0 ELSE f[n] + SumTo(f, n - 1)

RECURSIVE MaxTo(_, _)
MaxTo(f, n) == IF n = 1 THEN f[1]
               ELSE LET m == MaxTo(f, n - 1) IN IF f[n] > m THEN f[n] ELSE m

\* line 41: assert n_embd % n_head == 0
NoAssert(n_embd, n_head) == TRUE
AssertDivisible(n_embd, n_head) == n_embd % n_head = 0

\* Tensor.view(*shape): the shape must hold as many elements as the tensor.
ViewOk(numel, shape) == numel = Product(shape)

\* line 61: mask.view(B, 1, 1, -1), broadcast against att of shape (B, nh, T, T):
\* the entry of the key position j of batch row b.
QueryMask(mask, b, h, i, j) == mask[b][i]
BroadcastMask(mask, b, h, i, j) == mask[b][j]

\* line 64: att.masked_fill(mask == 0, -1e10)
MaskedFill(scores, mask) ==
    [b \in DOMAIN scores |-> [h \in DOMAIN scores[b] |->
        [i \in DOMAIN scores[b][h] |-> [j \in DOMAIN scores[b][h][i] |->
            IF BroadcastMask(mask, b, h, i, j) = 0 THEN MaskFill
            ELSE scores[b][h][i][j]]]]]

\* exp(d) for d <= 0, with FracBits fractional bits: a term below the smallest
\* representable number underflows to 0, as it does in floating point.
Exp2(d) == IF d < -FracBits THEN 0 ELSE Pow(2, FracBits + d)

\* line 65: F.softmax(att, dim=-1) of one row: the weights num / den.
Softmax(row) ==
    LET n == Len(row)
        mx == MaxTo(row, n)
        e == [j \in 1..n |-> Exp2(row[j] - mx)]
        tot == SumTo(e, n)
    IN  [j \in 1..n |-> [num |-> e[j], den |-> tot]]

\* line 67: att @ v for one query: the sum of the weighted values.
Attend(w, v) ==
    [num |-> SumTo([j \in DOMAIN w |-> w[j].num * v[j]], Len(w)), den |-> w[1].den]

NoInstance == [built |-> FALSE, n_embd |-> 0, n_head |-> 0]

AttnIdle ==
    /\ a_pc = "idle"
    /\ a_cfg = <<>>
    /\ a_self = NoInstance
    /\ a_in = <<>>
    /\ a_scores = <<>>
    /\ a_v = <<>>
    /\ a_att = <<>>
    /\ a_y = <<>>

AttnInit ==
    /\ a_pc = "new"
    /\ a_cfg \in AttnConfigs
    /\ a_self = NoInstance
    /\ a_in \in AttnInputs
    /\ a_scores = <<>>
    /\ a_v = <<>>
    /\ a_att = <<>>
    /\ a_y = <<>>

\* lines 39-51: __init__; Block.__init__ (lines 101-105) passes n_head = 8.
AttnConstruct ==
    /\ a_pc = "new"
    /\ IF AssertDivisible(a_cfg.n_embd, a_cfg.n_head)
       THEN /\ a_self' = [built |-> TRUE, n_embd |-> a_cfg.n_embd,
                          n_head |-> a_cfg.n_head]
            /\ a_pc' = "constructed"
       ELSE /\ a_self' = a_self
            /\ a_pc' = "ctor_error"
    /\ UNCHANGED <<a_cfg, a_in, a_scores, a_v, a_att, a_y>>
    /\ AttnFrame

\* lines 54-63: forward on x of size (B, T, n_embd): the projections, split
\* into heads by view(B, T, n_head, C // n_head), and the scaled scores.
AttnSplitHeads ==
    /\ a_pc = "constructed"
    /\ LET B == a_in.B
           T == a_in.T
           C == a_self.n_embd
           nh == a_self.n_head
       IN  IF ViewOk(B * T * C, <<B, T, nh, C \div nh>>)
           THEN /\ a_scores' = [b \in 1..B |-> [h \in 1..nh |-> [i \in 1..T |->
                                   [j \in 1..T |-> ScoreAt(a_in.seed, b, h, i, j)]]]]
                /\ a_v' = [b \in 1..B |-> [h \in 1..nh |->
                              [j \in 1..T |-> ValueAt(a_in.seed, b, h, j)]]]
                /\ a_pc' = "split"
           ELSE /\ a_pc' = "fwd_error"
                /\ UNCHANGED <<a_scores, a_v>>
    /\ UNCHANGED <<a_cfg, a_self, a_in, a_att, a_y>>
    /\ AttnFrame

\* lines 61-66: the mask, the softmax over the keys, and attn_drop, which is
\* the identity with dropout disabled.
AttnWeights ==
    /\ a_pc = "split"
    /\ LET filled == MaskedFill(a_scores, a_in.mask)
       IN  a_att' = [b \in DOMAIN filled |-> [h \in DOMAIN filled[b] |->
                        [i \in DOMAIN filled[b][h] |-> Softmax(filled[b][h][i])]]]
    /\ a_pc' = "weights"
    /\ UNCHANGED <<a_cfg, a_self, a_in, a_scores, a_v, a_y>>
    /\ AttnFrame

\* lines 67-72: the weighted values; the heads are put side by side and
\* projected.
AttnOutput ==
    /\ a_pc = "weights"
    /\ a_y' = [b \in DOMAIN a_att |-> [h \in DOMAIN a_att[b] |->
                  [i \in DOMAIN a_att[b][h] |-> Attend(a_att[b][h][i], a_v[b][h])]]]
    /\ a_pc' = "done"
    /\ UNCHANGED <<a_cfg, a_self, a_in, a_scores, a_v, a_att>>
    /\ AttnFrame

AttnNext ==
    \/ AttnConstruct
    \/ AttnSplitHeads
    \/ AttnWeights
    \/ AttnOutput

Weighed == a_pc \in {"weights", "done"}
ValidKeys(b) == {j \in 1..a_in.T : a_in.mask[b][j] = 1}

\* C5 (as amended): with dropout disabled, for every batch row b whose mask has
\* a valid key, and every head and query position whose largest score over the
\* valid keys is above the fill value by more than the range over which the
\* exponential underflows, the weight on every key j with mask[b][j] = 0 is 0
\* and the output is the weighted sum over the valid keys alone; the mask is
\* applied along the key dimension.  For a row whose mask is all 0 the weights
\* are uniform, 1/T on every key.
C5_MaskedKeysWeighNothing ==
    Weighed =>
        \A b \in 1..a_in.B : \A h \in 1..a_self.n_head : \A i \in 1..a_in.T :
            /\ (\E j \in ValidKeys(b) : a_scores[b][h][i][j] > MaskFill + FracBits) =>
                  /\ \A j \in 1..a_in.T :
                        a_in.mask[b][j] = 0 => a_att[b][h][i][j].num = 0
                  /\ a_pc = "done" =>
                        a_y[b][h][i].num =
                            SumTo([j \in 1..a_in.T |->
                                      IF j \in ValidKeys(b)
                                      THEN a_att[b][h][i][j].num * a_v[b][h][j]
                                      ELSE 0], a_in.T)
            /\ ValidKeys(b) = {} =>
                  \A j \in 1..a_in.T :
                      a_att[b][h][i][j].num * a_in.T = a_att[b][h][i][j].den

\* Two batch rows with different masks went through two heads; in the first,
\* a padded key held the largest score of some query before the fill.
C5_Witness ==
    /\ a_pc = "done"
    /\ a_in.B = 2
    /\ a_self.n_head >= 2
    /\ a_in.mask[1] # a_in.mask[2]
    /\ ValidKeys(1) # {}
    /\ \E i, j \in 1..a_in.T :
          /\ a_in.mask[1][j] = 0
          /\ a_in.mask[1][i] = 1
          /\ \A k \in 1..a_in.T : a_scores[1][1][i][k] <= a_scores[1][1][i][j]
          /\ a_scores[1][1][i][j] > MaskFill + FracBits
          /\ a_att[1][1][i][j].num = 0

\* C5 (as stated): for every mask, batch row, head and query position the
\* weight on each key position j with mask[b][j] = 0 is 0.
C5_EveryMaskedWeightZero ==
    Weighed =>
        \A b \in 1..a_in.B : \A h \in 1..a_self.n_head : \A i, j \in 1..a_in.T :
            a_in.mask[b][j] = 0 => a_att[b][h][i][j].num = 0

\* C8: __init__ with n_embd not divisible by n_head ends in an error and
\* leaves no instance, so every instance (Block's, of 8 heads, included) has
\* n_embd % n_head = 0, and forward on an input of feature size n_embd does
\* not fail in the reshape into heads.
C8_DivisibleOrRejected ==
    /\ (a_pc \notin {"idle", "new"} /\ a_cfg.n_embd % a_cfg.n_head # 0) =>
          a_pc = "ctor_error" /\ ~a_self.built
    /\ a_self.built =>
          /\ a_self.n_embd % a_self.n_head = 0
          /\ a_self.n_embd = a_cfg.n_embd /\ a_self.n_head = a_cfg.n_head
    /\ a_pc # "fwd_error"
    /\ a_pc \in {"split", "weights", "done"} =>
          /\ Len(a_scores) = a_in.B
          /\ \A b \in 1..a_in.B : Len(a_scores[b]) = a_self.n_head

\* The instance a Block builds, of 8 heads, ran forward to the end.
C8_Witness ==
    /\ a_pc = "done"
    /\ a_self.built
    /\ a_self.n_head = BlockHeads

\* ----------------------------------------------------------- QANetOutput
\* A tensor is [shape, data]: data maps each index tuple of the shape to an
\* entry.  The hidden size is 1: M1, M2 and M3 hold one number per position.
RECURSIVE Indices(_)
Indices(shape) ==
    IF shape = <<>> THEN {<<>>}
    ELSE {<<i>> \o rest : i \in 1..Head(shape), rest \in Indices(Tail(shape))}

Tensor(shape, f(_)) == [shape |-> shape, data |-> [ix \in Indices(shape) |-> f(ix)]]

RECURSIVE DropOnes(_)
DropOnes(shape) ==
    IF shape = <<>> THEN <<>>
    ELSE IF Head(shape) = 1 THEN DropOnes(Tail(shape))
         ELSE <<Head(shape)>> \o DropOnes(Tail(shape))

\* The positions of the dimensions DropOnes keeps.
RECURSIVE KeptDims(_, _)
KeptDims(shape, k) ==
    IF k > Len(shape) THEN <<>>
    ELSE IF shape[k] = 1 THEN KeptDims(shape, k + 1)
         ELSE <<k>> \o KeptDims(shape, k + 1)

\* lines 150-151: Tensor.squeeze() with no argument removes every dimension
\* of size 1.
Squeeze(x) ==
    LET kept == KeptDims(x.shape, 1)
        Full(ix) == [k \in 1..Len(x.shape) |->
                        IF \E m \in DOMAIN kept : kept[m] = k
                        THEN ix[CHOOSE m \in DOMAIN kept : kept[m] = k]
                        ELSE 1]
        F(ix) == x.data[Full(ix)]
    IN  Tensor(DropOnes(x.shape), F)

Max(a, b) == IF a >= b THEN a ELSE b

\* Broadcasting of two shapes, aligned at the last dimension: two sizes go
\* together if they are equal or one of them is 1.
PadShape(shape, n) == [k \in 1..n |-> IF k <= n - Len(shape) THEN 1
                                     ELSE shape[k - (n - Len(shape))]]
Broadcastable(s1, s2) ==
    LET n == Max(Len(s1), Len(s2))
    IN  \A k \in 1..n : \/ PadShape(s1, n)[k] = PadShape(s2, n)[k]
                        \/ PadShape(s1, n)[k] = 1
                        \/ PadShape(s2, n)[k] = 1
BroadcastShape(s1, s2) ==
    LET n == Max(Len(s1), Len(s2))
    IN  [k \in 1..n |-> Max(PadShape(s1, n)[k], PadShape(s2, n)[k])]

\* The entry of x that the index ix of the broadcast shape reads.
BroadcastAt(x, ix) ==
    LET off == Len(ix) - Len(x.shape)
    IN  x.data[[k \in 1..Len(x.shape) |-> IF x.shape[k] = 1 THEN 1 ELSE ix[k + off]]]

\* What util.masked_softmax writes over the logits of the masked positions
\* before the softmax: a number far below every logit.
SoftmaxFill == -2000000000

\* util.masked_softmax(logits, mask, log_softmax=True):
\* masked = mask * logits + (1 - mask) * fill, elementwise and broadcast, then
\* the log-softmax over the last dimension.  An entry num/den stands for the
\* log-probability log(num/den).
MaskedSoftmax(logits, mask) ==
    LET shape == BroadcastShape(mask.shape, logits.shape)
        n == Len(shape)
        Masked(ix) == IF BroadcastAt(mask, ix) = 1 THEN BroadcastAt(logits, ix)
                      ELSE SoftmaxFill
        Row(ix) == [t \in 1..shape[n] |-> Masked([ix EXCEPT ![n] = t])]
        F(ix) == Softmax(Row(ix))[ix[n]]
    IN  Tensor(shape, F)

\* lines 144-145: the weights of self.w1 and self.w2, Linear(2H, 1, bias=False).
W1 == <<1, 2>>
W2 == <<-1, 1>>

\* lines 147-151: torch.cat((Ma, Mb), dim=2), then the linear map: [B, T, 1].
Project(w, Ma, Mb, B, T) ==
    LET F(ix) == w[1] * Ma[ix[1]][ix[2]] + w[2] * Mb[ix[1]][ix[2]]
    IN  Tensor(<<B, T, 1>>, F)

OutBatchSizes == {1, 2}
OutSeeds == 0..2
Snapshot(B, T, seed) == [b \in 1..B |-> [t \in 1..T |-> (seed + b + 2 * t) % 3]]
OutInputs ==
    UNION {[B : {B}, T : {T},
            M1 : {Snapshot(B, T, s) : s \in OutSeeds},
            M2 : {Snapshot(B, T, s) : s \in OutSeeds},
            M3 : {Snapshot(B, T, s) : s \in OutSeeds},
            mask : [1..B -> [1..T -> {0, 1}]]] :
              B \in OutBatchSizes, T \in 1..MaxT}

NoTensor == [shape |-> <<>>, data |-> <<>>]

OutIdle ==
    /\ o_pc = "idle"
    /\ o_in = <<>>
    /\ o_logits = <<>>
    /\ o_p1 = NoTensor
    /\ o_p2 = NoTensor

OutInit ==
    /\ o_pc = "start"
    /\ o_in \in OutInputs
    /\ o_logits = <<>>
    /\ o_p1 = NoTensor
    /\ o_p2 = NoTensor

\* lines 147-151: the two concatenations and their projections.
OutProject ==
    /\ o_pc = "start"
    /\ o_logits' = <<Project(W1, o_in.M1, o_in.M2, o_in.B, o_in.T),
                     Project(W2, o_in.M2, o_in.M3, o_in.B, o_in.T)>>
    /\ o_pc' = "projected"
    /\ UNCHANGED <<o_in, o_p1, o_p2>>
    /\ OutFrame

\* lines 150-151: self.w1(x1).squeeze() and self.w2(x2).squeeze(), the logits
\* passed to masked_softmax.
PassedLogits(k) == Squeeze(o_logits[k])

\* lines 150-153: squeeze(), the masked log-softmax of each head, the return.
OutSoftmax ==
    /\ o_pc = "projected"
    /\ LET mask == Tensor(<<o_in.B, o_in.T>>, LAMBDA ix : o_in.mask[ix[1]][ix[2]])
           l1 == PassedLogits(1)
           l2 == PassedLogits(2)
       IN  IF Broadcastable(mask.shape, l1.shape) /\ Broadcastable(mask.shape, l2.shape)
           THEN /\ o_p1' = MaskedSoftmax(l1, mask)
                /\ o_p2' = MaskedSoftmax(l2, mask)
                /\ o_pc' = "done"
           ELSE /\ o_pc' = "error"
                /\ UNCHANGED <<o_p1, o_p2>>
    /\ UNCHANGED <<o_in, o_logits>>
    /\ OutFrame

OutNext ==
    \/ OutProject
    \/ OutSoftmax

\* C6: for every mask with a valid position in each row, each of the two
\* returned distributions, exponentiated, sums to 1 over the valid positions
\* of each row and gives 0 to every masked position.
RowSumsToOne(p, b) ==
    SumTo([t \in 1..o_in.T |-> IF o_in.mask[b][t] = 1 THEN p.data[<<b, t>>].num ELSE 0],
          o_in.T) = p.data[<<b, 1>>].den
MaskedAreZero(p, b) ==
    \A t \in 1..o_in.T : o_in.mask[b][t] = 0 => p.data[<<b, t>>].num = 0
C6_SumsToOneOverValid ==
    (/\ o_pc = "done"
     /\ \A b \in 1..o_in.B : \E t \in 1..o_in.T : o_in.mask[b][t] = 1) =>
        \A b \in 1..o_in.B :
            /\ RowSumsToOne(o_p1, b) /\ MaskedAreZero(o_p1, b)
            /\ RowSumsToOne(o_p2, b) /\ MaskedAreZero(o_p2, b)

\* The logits of row b of head k under the mask of row b, and the
\* log-probabilities they give.
RowLogits(k, b) ==
    [t \in 1..o_in.T |-> IF o_in.mask[b][t] = 1 THEN o_logits[k].data[<<b, t, 1>>]
                         ELSE SoftmaxFill]
RowwiseOf(k, p) ==
    /\ p.shape = <<o_in.B, o_in.T>>
    /\ \A b \in 1..o_in.B : \A t \in 1..o_in.T :
           p.data[<<b, t>>] = Softmax(RowLogits(k, b))[t]

\* C11: for every B >= 1 and T >= 1 the logits forward passes to the masked
\* softmax have shape [B, T], and both returned tensors have shape [B, T],
\* the entry [b, t] computed from the logits of row b under the mask of row b.
C11_ShapesBatchByLength ==
    /\ o_pc # "error"
    /\ o_pc \in {"projected", "done"} =>
           \A k \in 1..2 : PassedLogits(k).shape = <<o_in.B, o_in.T>>
    /\ o_pc = "done" => RowwiseOf(1, o_p1) /\ RowwiseOf(2, o_p2)

\* ----------------------------------------------------- position_encoding
\* A tensor of shape [T, H] is the sequence of its T rows, for one example of
\* the batch; a row is a term: <<"x", v>> is an input row, <<"pe", pos>> the
\* sines and cosines of position pos, <<"add", a, b>> the sum of two rows.
SeqLen == 1000

\* lines 16-22: the table of seq_len rows, for the positions 0..seq_len-1.
PosTable(L) == [p \in 1..L |-> <<"pe", p - 1>>]

AddRow(a, b) == <<"add", a, b>>

\* line 27: self.pos_encodings[:, :x.shape[1]]; a slice stops at the end of
\* the table.
PosSlice(table, T) == SubSeq(table, 1, Min(T, Len(table)))

\* lines 25-28: x + slice, the two broadcast against each other: lengths go
\* together if they are equal or one of them is 1.
PosEncForward(x, table) ==
    LET T == Len(x)
        slice == PosSlice(table, T)
        S == Len(slice)
    IN  IF S = T
        THEN [ok |-> TRUE, out |-> [t \in 1..T |-> AddRow(x[t], slice[t])]]
        ELSE IF S = 1
        THEN [ok |-> TRUE, out |-> [t \in 1..T |-> AddRow(x[t], slice[1])]]
        ELSE IF T = 1
        THEN [ok |-> TRUE, out |-> [t \in 1..S |-> AddRow(x[1], slice[t])]]
        ELSE [ok |-> FALSE, out |-> <<>>]

InputRows == {<<"x", 0>>, <<"x", 1>>}
InputsOfLen(T) == [1..T -> InputRows]

PosIdle ==
    /\ pe_pc = "idle"
    /\ pe_table = <<>>
    /\ pe_x = <<>>
    /\ pe_out = <<>>

PosInit ==
    /\ pe_pc = "start"
    /\ pe_table \in {PosTable(L) : L \in 1..MaxTable}
    /\ pe_x \in UNION {InputsOfLen(T) : T \in 1..MaxTable + 1}
    /\ pe_out = <<>>

\* lines 25-28: forward.
PosEncode ==
    /\ pe_pc = "start"
    /\ LET r == PosEncForward(pe_x, pe_table)
       IN  /\ pe_out' = r.out
           /\ pe_pc' = IF r.ok THEN "done" ELSE "error"
    /\ UNCHANGED <<pe_table, pe_x>>
    /\ PosFrame

PosNext == PosEncode

\* What forward does in each case: for a table of L >= 2 rows and an input of
\* T > L rows it ends in an error and returns nothing; for T <= L it returns x
\* plus the first T rows of the table; for L = 1 and T > 1 it returns x plus
\* the one row of the table at every position.
PosEncOutcome ==
    pe_pc # "start" =>
        LET T == Len(pe_x)
            L == Len(pe_table)
        IN  /\ T <= L =>
                  /\ pe_pc = "done"
                  /\ Len(pe_out) = T
                  /\ \A t \in 1..T : pe_out[t] = <<"add", pe_x[t], <<"pe", t - 1>>>>
            /\ (T > L /\ L >= 2) => pe_pc = "error" /\ pe_out = <<>>
            /\ (T > L /\ L = 1) =>
                  /\ pe_pc = "done"
                  /\ Len(pe_out) = T
                  /\ \A t \in 1..T : pe_out[t] = <<"add", pe_x[t], <<"pe", 0>>>>
            /\ pe_table = PosTable(L)

\* C7: for every table of L >= 1 rows and every input of T > L rows forward
\* ends in an error and returns no output, never one computed from a
\* truncated or repeated slice of the table; for T <= L it returns x plus the
\* first T rows of the table.
C7_ErrorBeyondTable ==
    pe_pc # "start" =>
        IF Len(pe_x) > Len(pe_table)
        THEN pe_pc = "error" /\ pe_out = <<>>
        ELSE /\ pe_pc = "done"
             /\ pe_out = [t \in 1..Len(pe_x) |-> AddRow(pe_x[t], pe_table[t])]

\* ------------------------------------------------------------------ Block
\* The sublayers are kept as terms over the rows, so that an output shows
\* which tensors it was computed from.
BlockLens == {1, 2}
NumCalls == 2

\* lines 127 and 133, nn.Dropout: with training False the argument itself is
\* returned; with training True entries are zeroed at random, anew in every
\* call.
Dropout(x, training, call) ==
    IF training THEN [t \in DOMAIN x |-> <<"drop", call, x[t]>>] ELSE x

\* nn.LayerNorm(hidden_size): each row is normalised on its own.
LayerNorm(name, x) == [t \in DOMAIN x |-> <<"ln", name, x[t]>>]

\* lines 83-98: the depthwise convolution of kernel 7 and padding 3 reads the
\* rows t-3..t+3; then the pointwise convolution, the ReLU and the dropout.
Convolution(x, training, call) ==
    Dropout([t \in DOMAIN x |->
                <<"conv", [k \in 1..7 |-> IF t + k - 4 \in DOMAIN x
                                          THEN x[t + k - 4] ELSE <<"pad">>]>>],
            training, call)

\* lines 53-72: a query row attends to the rows of the valid keys (to all of
\* them, uniformly, if the mask is all 0); attn_drop and resid_drop.
Attn(x, mask, training, call) ==
    Dropout([t \in DOMAIN x |->
                <<"attn", x[t],
                  [j \in DOMAIN x |->
                      IF mask[j] = 1 \/ \A k \in DOMAIN mask : mask[k] = 0
                      THEN x[j] ELSE <<"pad">>]>>],
            training, call)

\* lines 134-136: ff_2(relu(ff_1(x))), row by row.
FF1(x) == [t \in DOMAIN x |-> <<"ff_1", x[t]>>]
Relu(x) == [t \in DOMAIN x |-> <<"relu", x[t]>>]
FF2(x) == [t \in DOMAIN x |-> <<"ff_2", x[t]>>]

AddT(a, b) == [t \in DOMAIN a |-> AddRow(a[t], b[t])]

\* A new tensor holding v: its id is the length of the new heap.
Alloc(h, v) == Append(h, v)

\* a += b: the sum is written into the tensor a.
IAdd(h, a, b) == [h EXCEPT ![a] = AddT(h[a], h[b])]

\* line 115 with lines 25-28: x = self.position_encoder(x) binds x to a new
\* tensor; the argument and the buffer are read only.
PosEncInPlace(h, x, table) ==
    LET r == PosEncForward(h[x], table)
    IN  [ok |-> r.ok, heap |-> [h EXCEPT ![x] = r.out], id |-> x, table |-> table]
PosEncStore(h, x, table) ==
    LET r == PosEncForward(h[x], table)
    IN  [ok |-> r.ok, heap |-> Alloc(h, r.out), id |-> Len(h) + 1, table |-> table]

\* line 128: x + self.attn(x, mask) + residual
AttnResidualTwoTerms(n, att, r) == AddT(att, r)
AttnResidual(n, att, r) == AddT(AddT(n, att), r)

\* The number of the call of forward that is running, or has just returned.
Call == IF b_pc = "returned" THEN Len(b_outs) ELSE Len(b_outs) + 1

BlkIdle ==
    /\ b_pc = "idle"
    /\ b_args = <<>>
    /\ heap = <<>>
    /\ b_x = 0
    /\ b_residual = 0
    /\ b_i = 0
    /\ b_outs = <<>>

BlkInit ==
    /\ b_pc = "start"
    /\ b_args \in UNION {[num_convs : 0..MaxConvs, training : BOOLEAN,
                          x : InputsOfLen(T), mask : [1..T -> {0, 1}]] :
                         T \in BlockLens}
    /\ heap = <<b_args.x, b_args.mask>>
    /\ b_x = 1
    /\ b_residual = 0
    /\ b_i = 0
    /\ b_outs = <<>>
    /\ pe_table = PosTable(SeqLen)
    /\ pe_pc = "idle"
    /\ pe_x = <<>>
    /\ pe_out = <<>>

\* lines 115-116: the positional encoding, and residual = x.
BlockPosEnc ==
    /\ b_pc = "start"
    /\ LET r == PosEncStore(heap, b_x, pe_table)
       IN  /\ heap' = r.heap
           /\ pe_table' = r.table
           /\ b_x' = r.id
           /\ b_residual' = r.id
           /\ b_pc' = IF r.ok THEN "convs" ELSE "error"
    /\ b_i' = 0
    /\ UNCHANGED <<b_args, b_outs>>
    /\ BlkFrame

\* lines 119-123: one iteration of the convolution loop.
BlockConv ==
    /\ b_pc = "convs"
    /\ b_i < b_args.num_convs
    /\ LET h1 == Alloc(heap, LayerNorm("conv_ln", heap[b_x]))
           h2 == Alloc(h1, Convolution(h1[Len(h1)], b_args.training, Call))
           x2 == Len(h2)
       IN  /\ heap' = IAdd(h2, x2, b_residual)
           /\ b_x' = x2
           /\ b_residual' = x2
    /\ b_i' = b_i + 1
    /\ UNCHANGED <<b_pc, b_args, b_outs, pe_table>>
    /\ BlkFrame

\* lines 126-129: the attention sublayer, once the loop is over.
BlockAttn ==
    /\ b_pc = "convs"
    /\ b_i >= b_args.num_convs
    /\ LET h1 == Alloc(heap, LayerNorm("attn_ln", heap[b_x]))
           h2 == IF b_args.training
                 THEN Alloc(h1, Dropout(h1[Len(h1)], TRUE, Call))
                 ELSE h1
           n == Len(h2)
           h3 == Alloc(h2, Attn(h2[n], h2[2], b_args.training, Call))
           att == Len(h3)
           h4 == Alloc(h3, AttnResidual(h3[n], h3[att], h3[b_residual]))
       IN  /\ heap' = h4
           /\ b_x' = Len(h4)
           /\ b_residual' = Len(h4)
    /\ b_pc' = "ff"
    /\ UNCHANGED <<b_args, b_i, b_outs, pe_table>>
    /\ BlkFrame

\* lines 132-139: the feed-forward sublayer and the return.
BlockFF ==
    /\ b_pc = "ff"
    /\ LET h0 == Alloc(heap, LayerNorm("ff_ln", heap[b_x]))
           h1 == IF b_args.training
                 THEN Alloc(h0, Dropout(h0[Len(h0)], TRUE, Call))
                 ELSE h0
           h2 == Alloc(h1, FF1(h1[Len(h1)]))
           h3 == Alloc(h2, Relu(h2[Len(h2)]))
           h4 == Alloc(h3, FF2(h3[Len(h3)]))
           x4 == Len(h4)
           h5 == IAdd(h4, x4, b_residual)
       IN  /\ heap' = h5
           /\ b_x' = x4
           /\ b_outs' = Append(b_outs, [id |-> x4, val |-> h5[x4]])
    /\ b_pc' = "returned"
    /\ UNCHANGED <<b_args, b_residual, b_i, pe_table>>
    /\ BlkFrame

\* The caller calls forward again, on the same input and mask.
BlockCallAgain ==
    /\ b_pc = "returned"
    /\ Len(b_outs) < NumCalls
    /\ b_x' = 1
    /\ b_residual' = 0
    /\ b_i' = 0
    /\ b_pc' = "start"
    /\ UNCHANGED <<b_args, heap, b_outs, pe_table>>
    /\ BlkFrame

BlkNext ==
    \/ BlockPosEnc
    \/ BlockConv
    \/ BlockAttn
    \/ BlockFF
    \/ BlockCallAgain

\* C9: forward leaves the caller's input, the mask and
\* the positional-encoding table as they were, a returned tensor is not
\* written by a later call, and with dropout disabled two calls on the same
\* input and mask return equal outputs.
C9_InputsUntouched ==
    b_pc # "idle" =>
        /\ heap[1] = b_args.x
        /\ heap[2] = b_args.mask
        /\ pe_table = PosTable(SeqLen)
        /\ \A c \in DOMAIN b_outs : heap[b_outs[c].id] = b_outs[c].val
        /\ Len(b_outs) >= 2 =>
              /\ b_outs[1].id # b_outs[2].id
              /\ ~b_args.training => b_outs[1].val = b_outs[2].val

\* Two calls of a Block with convolutions and no dropout have returned.
C9_Witness ==
    /\ b_pc = "returned"
    /\ Len(b_outs) >= 2
    /\ ~b_args.training
    /\ b_args.num_convs >= 1
    /\ Len(b_args.x) >= 2

\* r(i): the residual after i iterations of the convolution loop.
RECURSIVE ResidualAfter(_)
ResidualAfter(i) ==
    IF i = 0 THEN [t \in DOMAIN b_args.x |-> <<"add", b_args.x[t], <<"pe", t - 1>>>>]
    ELSE AddT(Convolution(LayerNorm("conv_ln", ResidualAfter(i - 1)),
                          b_args.training, Call),
              ResidualAfter(i - 1))
Normalised ==
    Dropout(LayerNorm("attn_ln", ResidualAfter(b_args.num_convs)),
            b_args.training, Call)
AfterAttention ==
    AddT(AddT(Normalised, Attn(Normalised, b_args.mask, b_args.training, Call)),
         ResidualAfter(b_args.num_convs))
BlockOutput ==
    AddT(FF2(Relu(FF1(Dropout(LayerNorm("ff_ln", AfterAttention),
                              b_args.training, Call)))),
         AfterAttention)

\* C10: forward computes r0 = input + positional encoding; num_convs times
\* r(i+1) = Conv(LayerNorm(r(i))) + r(i); a = n + Attn(n, mask) + r for the
\* last r and n = Dropout(LayerNorm(r)); and it returns
\* FF2(ReLU(FF1(Dropout(LayerNorm(a))))) + a.
C10_SublayerOrder ==
    /\ b_pc = "convs" =>
          /\ b_i <= b_args.num_convs
          /\ b_x = b_residual
          /\ heap[b_residual] = ResidualAfter(b_i)
    /\ b_pc = "ff" =>
          /\ b_i = b_args.num_convs
          /\ heap[b_residual] = AfterAttention
    /\ b_pc = "returned" =>
          /\ heap[b_residual] = AfterAttention
          /\ heap[b_x] = BlockOutput
          /\ b_outs[Len(b_outs)].val = BlockOutput

\* A Block of two convolutions or more has returned, and so has one of none.
C10_Witness ==
    /\ b_pc = "returned"
    /\ b_args.num_convs >= 2
    /\ Len(b_args.x) >= 2
    /\ \E t \in DOMAIN b_args.mask : b_args.mask[t] = 0

\* ------------------------------------------------------ the specifications
Init == DrvInit /\ AttnIdle /\ OutIdle /\ PosIdle /\ BlkIdle
Next == DrvNext
Spec == Init /\ [][Next]_vars

InitAttn == AttnInit /\ DrvIdle /\ OutIdle /\ PosIdle /\ BlkIdle
SpecAttn == InitAttn /\ [][AttnNext]_vars

InitOut == OutInit /\ DrvIdle /\ AttnIdle /\ PosIdle /\ BlkIdle
SpecOut == InitOut /\ [][OutNext]_vars

InitPos == PosInit /\ DrvIdle /\ AttnIdle /\ OutIdle /\ BlkIdle
SpecPos == InitPos /\ [][PosNext]_vars

InitBlock == BlkInit /\ DrvIdle /\ AttnIdle /\ OutIdle
SpecBlock == InitBlock /\ [][BlkNext]_vars

====
